---- MODULE Spec2Model ----
(***************************************************************************)
(* The two vtracer integration shims as one state machine:                 *)
(*   plugins/gimp/vtracer-vectorize/vtracer-vectorize.py  (GIMP filter)    *)
(*   plugins/inkscape/vtracer_vectorize.py          (Inkscape extension)   *)
(* One invocation of one shim runs from "start" to "done" (the handler     *)
(* returned) or "raised" (an exception left the handler uncaught).  The    *)
(* host calls, the file system and the vtracer library are the             *)
(* environment: each of their calls either succeeds or raises.             *)
(*                                                                         *)
(* Text is a sequence of one-character strings, bytes are 0..255, and a    *)
(* Python float is modelled by the integer or the exact fraction it        *)
(* denotes (a fraction is a pair <<numerator, denominator>>).              *)
(***************************************************************************)
EXTENDS Integers, Sequences, FiniteSets, TLC

\* ------------------------------------------------------------------ bounds

\* The most elements the document's parent holds before the invocation.
MaxElems == 2

\* ------------------------------------------------------------ text helpers

StartsWith(s, p) ==
    /\ Len(p) <= Len(s)
    /\ SubSeq(s, 1, Len(p)) = p

Drop(s, n) ==
    SubSeq(s, n + 1, Len(s))

InSeq(c, s) ==
    \E i \in 1..Len(s) : s[i] = c

\* The position of the first element of s, at or after i, that is in the set
\* `stop`: Len(s) + 1 when there is none.
RECURSIVE FirstOf(_, _, _)
FirstOf(s, i, stop) ==
    IF i > Len(s) \/ s[i] \in stop THEN i ELSE FirstOf(s, i + 1, stop)

\* The position of the last c in s, 0 when there is none.
RECURSIVE LastIndex(_, _, _)
LastIndex(s, c, i) ==
    IF i = 0 \/ s[i] = c THEN i ELSE LastIndex(s, c, i - 1)

B64Alphabet ==
    <<"A", "B", "C", "D", "E", "F", "G", "H", "I", "J", "K", "L", "M", "N", "O", "P", "Q", "R", "S", "T", "U", "V", "W", "X", "Y", "Z", "a", "b", "c", "d", "e", "f", "g", "h", "i", "j", "k", "l", "m", "n", "o", "p", "q", "r", "s", "t", "u", "v", "w", "x", "y", "z", "0", "1", "2", "3", "4", "5", "6", "7", "8", "9", "+", "/">>

\* Python's \w over ASCII.
WordChars ==
    <<"A", "B", "C", "D", "E", "F", "G", "H", "I", "J", "K", "L", "M", "N", "O", "P", "Q", "R", "S", "T", "U", "V", "W", "X", "Y", "Z", "a", "b", "c", "d", "e", "f", "g", "h", "i", "j", "k", "l", "m", "n", "o", "p", "q", "r", "s", "t", "u", "v", "w", "x", "y", "z", "0", "1", "2", "3", "4", "5", "6", "7", "8", "9", "_">>

UpperChars ==
    <<"A", "B", "C", "D", "E", "F", "G", "H", "I", "J", "K", "L", "M", "N", "O", "P", "Q", "R", "S", "T", "U", "V", "W", "X", "Y", "Z">>

LowerChars ==
    <<"a", "b", "c", "d", "e", "f", "g", "h", "i", "j", "k", "l", "m", "n", "o", "p", "q", "r", "s", "t", "u", "v", "w", "x", "y", "z">>

PfxData ==
    <<"d", "a", "t", "a", ":">>

PfxDataImage ==
    <<"d", "a", "t", "a", ":", "i", "m", "a", "g", "e", "/">>

PfxFile ==
    <<"f", "i", "l", "e", ":", "/", "/">>

PfxHttp ==
    <<"h", "t", "t", "p">>

MidBase64 ==
    <<";", "b", "a", "s", "e", "6", "4", ",">>

\* str.lower()
LowerChar(c) ==
    IF InSeq(c, UpperChars)
    THEN LowerChars[CHOOSE i \in 1..Len(UpperChars) : UpperChars[i] = c]
    ELSE c

Lower(s) ==
    [i \in 1..Len(s) |-> LowerChar(s[i])]

\* ------------------------------------------------- results of a Python call

\* A call either returns a value or raises: [kind, data, fmt, err].
Returned(data, fmt) ==
    [kind |-> "value", data |-> data, fmt |-> fmt, err |-> "none"]

ReturnedNone ==
    [kind |-> "none", data |-> <<>>, fmt |-> <<>>, err |-> "none"]

Raised(e) ==
    [kind |-> "raise", data |-> <<>>, fmt |-> <<>>, err |-> e]

\* ---------------------------------------------------------------- base64

B64Value(c) ==
    (CHOOSE i \in 1..Len(B64Alphabet) : B64Alphabet[i] = c) - 1

\* binascii.a2b_base64 as base64.b64decode(s) calls it (validate=False):
\* characters outside the alphabet are skipped, a pad that completes a
\* quad ends the decoding, and data left in an incomplete quad raises.
RECURSIVE B64Scan(_, _, _, _, _, _)
B64Scan(s, i, quad, left, pads, out) ==
    IF i > Len(s)
    THEN IF quad = 0
         THEN Returned(out, <<>>)
         ELSE Raised(IF quad = 1 THEN "Invalid base64-encoded string"
                                 ELSE "Incorrect padding")
    ELSE IF s[i] = "="
    THEN IF quad >= 2 /\ quad + pads + 1 >= 4
         THEN Returned(out, <<>>)
         ELSE B64Scan(s, i + 1, quad, left, IF quad >= 2 THEN pads + 1 ELSE pads, out)
    ELSE IF ~InSeq(s[i], B64Alphabet)
    THEN B64Scan(s, i + 1, quad, left, pads, out)
    ELSE LET v == B64Value(s[i]) IN
         CASE quad = 0 -> B64Scan(s, i + 1, 1, v, 0, out)
           [] quad = 1 -> B64Scan(s, i + 1, 2, v % 16, 0,
                                  Append(out, left * 4 + (v \div 16)))
           [] quad = 2 -> B64Scan(s, i + 1, 3, v % 4, 0,
                                  Append(out, left * 16 + (v \div 4)))
           [] OTHER    -> B64Scan(s, i + 1, 0, 0, 0, Append(out, left * 64 + v))

b64decode(s) ==
    B64Scan(s, 1, 0, 0, 0, <<>>)

\* re.match(r'data:image/(\w+);base64,(.+)', href): the match's two groups,
\* or kind "none".  \w+ is the whole run of word characters after
\* "data:image/" (the next pattern character is not one), and .+ runs to the
\* first line break or the end.
MatchDataUri(href) ==
    IF ~StartsWith(href, PfxDataImage)
    THEN ReturnedNone
    ELSE LET rest == Drop(href, Len(PfxDataImage))
             w    == FirstOf(rest, 1, {c \in {rest[k] : k \in 1..Len(rest)} :
                                          ~InSeq(c, WordChars)}) - 1
             tail == Drop(rest, w)
             pay  == Drop(tail, Len(MidBase64))
             e    == FirstOf(pay, 1, {"\n"}) - 1
         IN  IF w >= 1 /\ StartsWith(tail, MidBase64) /\ e >= 1
             THEN Returned(SubSeq(pay, 1, e), SubSeq(rest, 1, w))
             ELSE ReturnedNone

\* ------------------------------------------------------------------ paths

\* urllib.parse.urlparse(href).path of a file:// reference: what follows
\* the network location, up to a query or fragment.  No percent-decoding.
UrlPath(href) ==
    LET rest == Drop(href, Len(PfxFile))
        p    == FirstOf(rest, 1, {"/", "?", "#"})
        q    == FirstOf(rest, p, {"?", "#"})
    IN  SubSeq(rest, p, q - 1)

\* os.path.dirname on POSIX (no trailing-slash normalisation is needed for
\* the paths of the model).
dirname(p) ==
    LET k == LastIndex(p, "/", Len(p)) IN
    IF k = 0 THEN <<>> ELSE IF k = 1 THEN <<"/">> ELSE SubSeq(p, 1, k - 1)

\* os.path.join(a, b) on POSIX.
join(a, b) ==
    IF StartsWith(b, <<"/">>) THEN b
    ELSE IF a = <<>> \/ a[Len(a)] = "/" THEN a \o b
    ELSE a \o <<"/">> \o b

\* os.path.splitext(p)[1].lower().replace('.', ''): the extension is what
\* follows the last dot of the last component, leading dots excepted.
FileExt(p) ==
    LET slash == LastIndex(p, "/", Len(p))
        base  == Drop(p, slash)
        lead  == FirstOf(base, 1, {c \in {base[k] : k \in 1..Len(base)} : c # "."}) - 1
        dot   == LastIndex(base, ".", Len(base))
        ext   == IF dot > lead THEN Drop(base, dot) ELSE <<>>
    IN  SelectSeq(Lower(ext), LAMBDA c : c # ".")

\* ------------------------------------------- the references of the model

\* 'data:image/png;base64,QUI='  (the two bytes 65, 66)
HrefDataPng ==
    <<"d", "a", "t", "a", ":", "i", "m", "a", "g", "e", "/", "p", "n", "g", ";", "b", "a", "s", "e", "6", "4", ",", "Q", "U", "I", "=">>

\* 'data:image/png;base64,QU I='  (a space inside the payload)
HrefDataSpaced ==
    <<"d", "a", "t", "a", ":", "i", "m", "a", "g", "e", "/", "p", "n", "g", ";", "b", "a", "s", "e", "6", "4", ",", "Q", "U", " ", "I", "=">>

\* 'data:image/png;base64,QUJ'  (a payload cut short: three characters)
HrefDataBadPad ==
    <<"d", "a", "t", "a", ":", "i", "m", "a", "g", "e", "/", "p", "n", "g", ";", "b", "a", "s", "e", "6", "4", ",", "Q", "U", "J">>

\* 'data:image/svg+xml;base64,QUI='  (not of the form the pattern accepts)
HrefDataSvgXml ==
    <<"d", "a", "t", "a", ":", "i", "m", "a", "g", "e", "/", "s", "v", "g", "+", "x", "m", "l", ";", "b", "a", "s", "e", "6", "4", ",", "Q", "U", "I", "=">>

\* 'file:///img/a.png'
HrefFileA ==
    <<"f", "i", "l", "e", ":", "/", "/", "/", "i", "m", "g", "/", "a", ".", "p", "n", "g">>

\* 'file://host/img/a.png#v'
HrefFileHost ==
    <<"f", "i", "l", "e", ":", "/", "/", "h", "o", "s", "t", "/", "i", "m", "g", "/", "a", ".", "p", "n", "g", "#", "v">>

\* 'file:///img/zz.png'  (no such file)
HrefFileMissing ==
    <<"f", "i", "l", "e", ":", "/", "/", "/", "i", "m", "g", "/", "z", "z", ".", "p", "n", "g">>

\* 'b.PNG'  (beside the document)
HrefRelB ==
    <<"b", ".", "P", "N", "G">>

\* 'c.png'  (no such file)
HrefRelMissing ==
    <<"c", ".", "p", "n", "g">>

\* 'http://h/a.png'
HrefHttp ==
    <<"h", "t", "t", "p", ":", "/", "/", "h", "/", "a", ".", "p", "n", "g">>

\* 'http.png'  (a file beside the document whose name begins with http)
HrefRelHttpName ==
    <<"h", "t", "t", "p", ".", "p", "n", "g">>

PathImgA ==
    <<"/", "i", "m", "g", "/", "a", ".", "p", "n", "g">>

PathDocB ==
    <<"/", "d", "o", "c", "/", "b", ".", "P", "N", "G">>

PathDocHttp ==
    <<"/", "d", "o", "c", "/", "h", "t", "t", "p", ".", "p", "n", "g">>

\* '/doc/d.svg'
InputFileDoc ==
    <<"/", "d", "o", "c", "/", "d", ".", "s", "v", "g">>

\* The href attribute values an image element of the model may carry; <<>> is
\* the attribute missing (or empty: `not href` treats both alike).
HrefSet ==
    { <<>>, HrefDataPng, HrefDataSpaced, HrefDataBadPad, HrefDataSvgXml,
      HrefFileA, HrefFileHost, HrefFileMissing, HrefRelB, HrefRelMissing,
      HrefHttp, HrefRelHttpName }

\* The raster files on disk, path to bytes.
DiskFiles ==
    (PathImgA :> <<137, 80>>) @@ (PathDocB :> <<255, 216>>) @@ (PathDocHttp :> <<71>>)

\* self.options.input_file: the document's path, or <<>> when there is none.
InputFileSet ==
    { <<>>, InputFileDoc }

\* ------------------------------------------------- Inkscape: pure methods

\* An optional value is a sequence of at most one element: <<>> is None.
None ==
    <<>>

Some(v) ==
    <<v>>

\* VTracerVectorize.get_preset_settings
get_preset_settings(preset) ==
    CASE preset = "bw" ->
           Some([colormode |-> "binary", filter_speckle |-> 4, color_precision |-> 6,
                 corner_threshold |-> 60, length_threshold |-> 4,
                 splice_threshold |-> 45, path_precision |-> 2])
      [] preset = "poster" ->
           Some([colormode |-> "color", filter_speckle |-> 4, color_precision |-> 8,
                 corner_threshold |-> 60, length_threshold |-> 4,
                 splice_threshold |-> 45, path_precision |-> 2])
      [] preset = "photo" ->
           Some([colormode |-> "color", filter_speckle |-> 2, color_precision |-> 16,
                 corner_threshold |-> 90, length_threshold |-> 2,
                 splice_threshold |-> 45, path_precision |-> 3])
      [] OTHER -> None

\* The defaults add_arguments declares.
OptionDefaults ==
    [colormode |-> "color", filter_speckle |-> 4, color_precision |-> 8,
     corner_threshold |-> 60, length_threshold |-> 4, splice_threshold |-> 45,
     path_precision |-> 2, preset |-> "custom"]

\* self.options after argument parsing: the command line `given` (a record
\* of the arguments that were passed) over the declared defaults.
ParseOptions(given) ==
    [k \in DOMAIN OptionDefaults |->
        IF k \in DOMAIN given THEN given[k] ELSE OptionDefaults[k]]

\* effect(): the settings chosen from the preset or the options.
ChooseSettings(options) ==
    IF options.preset # "custom"
    THEN get_preset_settings(options.preset)
    ELSE Some([colormode        |-> options.colormode,
               filter_speckle   |-> options.filter_speckle,
               color_precision  |-> options.color_precision,
               corner_threshold |-> options.corner_threshold,
               length_threshold |-> options.length_threshold,
               splice_threshold |-> options.splice_threshold,
               path_precision   |-> options.path_precision])

\* The keyword arguments vectorize_image passes to the library.
InkCallArgs(settings) ==
    [colormode        |-> settings.colormode,
     filter_speckle   |-> settings.filter_speckle,
     color_precision  |-> settings.color_precision,
     corner_threshold |-> settings.corner_threshold,
     length_threshold |-> settings.length_threshold,
     splice_threshold |-> settings.splice_threshold,
     path_precision   |-> settings.path_precision]

\* VTracerVectorize.extract_image_data, given the element's two href
\* attributes; `io` is what open() does with a file that exists.
extract_image_data(xlink_href, plain_href, input_file, io) ==
    LET href == IF xlink_href # <<>> THEN xlink_href ELSE plain_href IN
    IF href = <<>>
    THEN ReturnedNone
    ELSE IF StartsWith(href, PfxData)
    THEN LET m == MatchDataUri(href) IN
         IF m.kind = "value"
         THEN LET d == b64decode(m.data) IN
              IF d.kind = "raise" THEN d ELSE Returned(d.data, m.fmt)
         ELSE ReturnedNone
    ELSE IF StartsWith(href, PfxFile)
    THEN LET filepath == UrlPath(href) IN
         IF filepath \in DOMAIN DiskFiles
         THEN IF io = "raise"
              THEN Raised("OSError: cannot open image file")
              ELSE Returned(DiskFiles[filepath], FileExt(filepath))
         ELSE ReturnedNone
    ELSE IF ~StartsWith(href, PfxHttp)
    THEN LET svg_dir  == IF input_file # <<>> THEN dirname(input_file) ELSE <<>>
             filepath == join(svg_dir, href)
         IN  IF filepath \in DOMAIN DiskFiles
             THEN IF io = "raise"
                  THEN Raised("OSError: cannot open image file")
                  ELSE Returned(DiskFiles[filepath], FileExt(filepath))
             ELSE ReturnedNone
    ELSE ReturnedNone

\* --------------------------------------------------- GIMP: pure fragments

\* The defaults do_create_procedure declares for the procedure's arguments.
ConfigDefaults ==
    [output_path |-> "", color_mode |-> 0, filter_speckle |-> 4,
     color_precision |-> 8, corner_threshold |-> 60, segment_length |-> 4,
     splice_threshold |-> 45, path_precision |-> "medium"]

\* config.get_property(name): the value set on the config, else the default.
get_property(config, name) ==
    IF name \in DOMAIN config THEN config[name] ELSE ConfigDefaults[name]

\* A variant of MapPathPrecision: the ids the Gimp.Choice gives its values
\* (0, 1, 2) in place of the library's precisions.
MapPathPrecision_choice_ids(choice) ==
    CASE choice = "low"    -> 0
      [] choice = "medium" -> 1
      [] choice = "high"   -> 2
      [] OTHER             -> 1

\* precision_map.get(path_precision_choice, 2)
MapPathPrecision(choice) ==
    CASE choice = "low"    -> 1
      [] choice = "medium" -> 2
      [] choice = "high"   -> 3
      [] OTHER             -> 2

\* mode = "binary" if color_mode == 1 else "color"
MapColorMode(color_mode) ==
    IF color_mode = 1 THEN "binary" ELSE "color"

\* vectorize(): the keyword arguments of the library call, from the config.
GimpCallArgs(config) ==
    [colormode        |-> MapColorMode(get_property(config, "color_mode")),
     filter_speckle   |-> get_property(config, "filter_speckle"),
     color_precision  |-> get_property(config, "color_precision"),
     corner_threshold |-> get_property(config, "corner_threshold"),
     length_threshold |-> get_property(config, "segment_length"),
     splice_threshold |-> get_property(config, "splice_threshold"),
     path_precision   |-> MapPathPrecision(get_property(config, "path_precision"))]

\* ------------------------------------------------ Inkscape: the geometry

\* A number written in an attribute: its value and the unit text after it
\* ("" for a bare number).  float() accepts it only when the unit is empty.
Num(n, u) ==
    [num |-> n, unit |-> u]

FloatOk(a) ==
    a.unit = ""

\* str.replace('px', '')
StripPx(a) ==
    IF a.unit = "px" THEN Num(a.num, "") ELSE a

NoTransform ==
    [translate |-> None, scale |-> None]

\* vectorize_image, lines 212-231: the group's transform from the image's
\* x and y (floats), its width and height attributes (optional text) and the
\* traced SVG's viewBox (optional, already split at white space).
\* The value is in `data`; a failed float() raises ValueError.
BuildTransform(x, y, width, height, viewbox) ==
    LET translated ==
            IF x # 0 \/ y # 0
            THEN [NoTransform EXCEPT !.translate = Some(<<x, y>>)]
            ELSE NoTransform
    IN
    IF viewbox # None /\ viewbox[1] # <<>> /\ width # None /\ height # None
       /\ Len(viewbox[1]) = 4
    THEN LET vb_parts == viewbox[1]
             w        == StripPx(width[1])
             h        == StripPx(height[1])
         IN
         IF ~FloatOk(vb_parts[3]) \/ ~FloatOk(vb_parts[4]) \/ ~FloatOk(w) \/ ~FloatOk(h)
         THEN Raised("could not convert string to float")
         ELSE LET vb_width  == vb_parts[3].num
                  vb_height == vb_parts[4].num
                  scale_x   == IF vb_width # 0 THEN <<w.num, vb_width>> ELSE <<1, 1>>
                  scale_y   == IF vb_height # 0 THEN <<h.num, vb_height>> ELSE <<1, 1>>
              IN
              IF scale_x[1] # scale_x[2] \/ scale_y[1] # scale_y[2]
              THEN Returned([translated EXCEPT !.scale = Some(<<scale_x, scale_y>>)], <<>>)
              ELSE Returned(translated, <<>>)
    ELSE Returned(translated, <<>>)

\* vectorize_image, lines 234-249: the children copied into the group, one
\* per path or rect element of the traced SVG, in document order.
CopyElements(elems) ==
    SelectSeq(elems, LAMBDA t : t \in {"path", "rect"})

\* The element ids of the model's document; get_id() returns them.
ElemIds ==
    << <<"e", "1">>, <<"e", "2">>, <<"e", "3">>, <<"e", "4">> >>

\* f'vectorized_{image_element.get_id()}'
VectorizedId(id) ==
    <<"v", "e", "c", "t", "o", "r", "i", "z", "e", "d", "_">> \o id

Element(id, kind) ==
    [id |-> id, kind |-> kind, style |-> "", transform |-> NoTransform,
     children |-> <<>>]

\* list(parent).index(image_element)
IndexOf(children, id) ==
    CHOOSE k \in 1..Len(children) : children[k].id = id

\* parent.insert(index, element)
InsertAt(children, index, element) ==
    SubSeq(children, 1, index - 1) \o <<element>> \o SubSeq(children, index, Len(children))

\* ------------------------------------------------- the inputs of the model

\* The restriction of a record to the fields in D.
Restrict(f, D) ==
    [k \in (DOMAIN f) \cap D |-> f[k]]

\* A GIMP config with every property set to a value that is not its default.
ConfigFull ==
    [output_path |-> "/home/u/out.svg", color_mode |-> 1, filter_speckle |-> 7,
     color_precision |-> 6, corner_threshold |-> 90, segment_length |-> 2,
     splice_threshold |-> 30, path_precision |-> "high"]

\* The configs of the model: the properties that were set, by name.
ConfigSet ==
    { Restrict(ConfigFull, D) :
        D \in { DOMAIN ConfigFull, {}, {"color_mode", "corner_threshold"},
                {"output_path", "filter_speckle", "segment_length"} } }
    \cup { [path_precision |-> "low"], [path_precision |-> "medium", color_mode |-> 0],
           [path_precision |-> "ultra", splice_threshold |-> 30] }

\* Inkscape's command line with every tracing option passed, none at its default.
GivenFull ==
    [colormode |-> "binary", filter_speckle |-> 7, color_precision |-> 6,
     corner_threshold |-> 90, length_threshold |-> 2, splice_threshold |-> 30,
     path_precision |-> 3]

\* The command lines of the model: the arguments that were passed, by name.
GivenSet ==
    { <<>>, GivenFull, GivenFull @@ [preset |-> "custom"],
      Restrict(GivenFull, {"colormode", "splice_threshold"}),
      GivenFull @@ [preset |-> "photo"], [preset |-> "bw", filter_speckle |-> 7],
      [preset |-> "poster"], [preset |-> "sepia"] }

\* The x, y, width and height attributes of an image element.
GeomSet ==
    { [x |-> None, y |-> None, width |-> None, height |-> None],
      [x |-> Some(Num(10, "")), y |-> Some(Num(20, "")),
       width |-> Some(Num(200, "")), height |-> Some(Num(100, ""))],
      [x |-> Some(Num(0, "")), y |-> None,
       width |-> Some(Num(100, "px")), height |-> Some(Num(50, "px"))],
      [x |-> None, y |-> Some(Num(5, "")),
       width |-> Some(Num(100, "")), height |-> Some(Num(50, ""))],
      [x |-> None, y |-> None,
       width |-> Some(Num(10, "mm")), height |-> Some(Num(50, ""))],
      [x |-> Some(Num(1, "cm")), y |-> None,
       width |-> Some(Num(100, "")), height |-> Some(Num(50, ""))] }

\* What the library may return: SVG text, described by whether it parses, its
\* root's viewBox (split at white space), its root's width and height, and the
\* tags of its elements in document order.
Svg(ok, viewBox, w, h, elems) ==
    [wellformed |-> ok, viewBox |-> viewBox, width |-> w, height |-> h,
     elems |-> elems]

SvgSet ==
    { Svg(TRUE, None, 100, 50, <<"svg", "rect", "path">>),
      Svg(TRUE, Some(<<Num(0, ""), Num(0, ""), Num(100, ""), Num(50, "")>>),
          100, 50, <<"svg", "rect", "path">>),
      Svg(TRUE, Some(<<Num(10, ""), Num(20, ""), Num(100, ""), Num(50, "")>>),
          100, 50, <<"svg", "rect", "path">>),
      Svg(TRUE, Some(<<Num(0, ",0,100,50")>>), 100, 50, <<"svg", "rect", "path">>),
      Svg(TRUE, Some(<<Num(0, ""), Num(0, ""), Num(0, ""), Num(0, "")>>),
          0, 0, <<"svg", "defs">>),
      Svg(TRUE, Some(<<Num(0, ""), Num(0, ""), Num(100, ""), Num(50, "%")>>),
          100, 50, <<"svg", "rect", "path">>),
      Svg(FALSE, None, 0, 0, <<>>) }

\* str(e) of the exceptions the library raises.
LibErrors ==
    { "vtracer: cannot decode image" }

\* What a call of vtracer.convert_image_to_svg_py does: it returns SVG text
\* or raises.
LibOutcomes ==
    { [raised |-> None, svg |-> Some(t)] : t \in SvgSet }
    \cup { [raised |-> Some(e), svg |-> None] : e \in LibErrors }

\* ------------------------------------------------------------------ state

VARIABLES
    shim,               \* "gimp" or "inkscape": the shim this invocation runs
    VTRACER_AVAILABLE,  \* whether `import vtracer` succeeded
    pc,                 \* the handler's position; "done" and "raised" end it
    n_drawables,        \* GIMP: the number of selected drawables
    run_mode,           \* GIMP: "INTERACTIVE" or "NONINTERACTIVE"
    config,             \* GIMP: the procedure config (the properties set)
    given,              \* Inkscape: the arguments passed on the command line
    input_file,         \* Inkscape: self.options.input_file
    selection,          \* Inkscape: self.svg.selection, as element ids
    doc,                \* Inkscape: the children of the images' parent
    doc0,               \* Inkscape: doc as it was when the invocation began
    images,             \* Inkscape: effect()'s list of selected images (ids)
    idx,                \* Inkscape: the position in `images` of the loop
    settings,           \* Inkscape: effect()'s settings (optional)
    extracted,          \* Inkscape: the last href read and what it resolved to
    img,                \* Inkscape: vectorize_image's img_data .. height
    svg,                \* the library's return value (optional)
    group,              \* Inkscape: the Group being built (optional)
    params,             \* GIMP: the library arguments read from the config
    output_path,        \* GIMP: where the SVG goes
    tmp_path,           \* the temporary file's name (optional)
    exc,                \* the exception being handled or propagating (optional)
    pending,            \* GIMP: the value of a return waiting for `finally`
    tempFiles,          \* the temporary files on disk: [name, data]
    nCreated,           \* how many temporary files were created so far
    outFiles,           \* GIMP: the output files on disk: [path, data]
    libCalls,           \* the calls of convert_image_to_svg_py so far
    msgs,               \* the messages shown to the user so far
    ret,                \* GIMP: the returned values (optional)
    results,            \* Inkscape: how each processed image ended
    unlinkRaised        \* whether os.unlink raised in a finally block

inputs ==
    <<shim, VTRACER_AVAILABLE, n_drawables, run_mode, given, input_file,
      selection, doc0>>

inkLocals ==
    <<images, idx, settings, extracted, img, group, results>>

gimpLocals ==
    <<params, output_path, pending>>

world ==
    <<tempFiles, nCreated, outFiles>>

vars ==
    <<inputs, config, doc, inkLocals, gimpLocals, svg, tmp_path, exc, pc,
      world, libCalls, msgs, ret, unlinkRaised>>

NoImg ==
    [data |-> <<>>, fmt |-> <<>>, x |-> 0, y |-> 0, width |-> None,
     height |-> None]

Msg(kind, head, detail, image) ==
    [kind |-> kind, head |-> head, detail |-> detail, image |-> image]

ReturnValues(status, message) ==
    [status |-> status, message |-> message]

\* The documents of the model: up to MaxElems children, images and others.
DocSet ==
    UNION { { [i \in 1..n |-> Element(ElemIds[i], k[i])] :
                k \in [1..n -> {"image", "rect"}] } : n \in 0..MaxElems }

\* A selection: some of the document's elements, in document order.
RECURSIVE SubSeqs(_)
SubSeqs(s) ==
    IF s = <<>> THEN { <<>> }
    ELSE LET rest == SubSeqs(Tail(s)) IN
         rest \cup { <<Head(s)>> \o r : r \in rest }

Init ==
    /\ shim \in {"gimp", "inkscape"}
    /\ VTRACER_AVAILABLE \in BOOLEAN
    /\ pc = "start"
    /\ IF shim = "gimp"
       THEN /\ n_drawables \in 0..2
            /\ run_mode \in {"INTERACTIVE", "NONINTERACTIVE"}
            /\ config \in ConfigSet
            /\ given = <<>>
            /\ input_file = <<>>
            /\ doc = <<>>
            /\ selection = <<>>
       ELSE /\ n_drawables = 0
            /\ run_mode = "NONINTERACTIVE"
            /\ config = <<>>
            /\ given \in GivenSet
            /\ input_file \in InputFileSet
            /\ doc \in DocSet
            /\ selection \in SubSeqs([i \in 1..Len(doc) |-> doc[i].id])
    /\ doc0 = doc
    /\ images = <<>>
    /\ idx = 0
    /\ settings = None
    /\ extracted = None
    /\ img = NoImg
    /\ svg = None
    /\ group = None
    /\ params = None
    /\ output_path = ""
    /\ tmp_path = None
    /\ exc = None
    /\ pending = None
    /\ tempFiles = {}
    /\ nCreated = 0
    /\ outFiles = {}
    /\ libCalls = <<>>
    /\ msgs = <<>>
    /\ ret = None
    /\ results = <<>>
    /\ unlinkRaised = FALSE

\* ------------------------------------------------------- the file system

\* tempfile.NamedTemporaryFile(suffix=..., delete=False).name: a fresh name.
TempName(n, suffix) ==
    [n |-> n, suffix |-> suffix]

TempFile(name, data) ==
    [name |-> name, data |-> data]

\* os.path.exists(name)
Exists(files, name) ==
    \E f \in files : f.name = name

\* os.unlink(name), when it succeeds
Unlinked(files, name) ==
    { f \in files : f.name # name }

DotPng ==
    <<".", "p", "n", "g">>

\* ------------------------------------------------ GIMP: vectorize (146-258)

\* A variant of vectorize_available: the check of lines 149-155 left out.
vectorize_available_unchecked ==
    /\ shim = "gimp" /\ pc = "start"
    /\ pc' = "g_drawables"
    /\ UNCHANGED <<inputs, config, doc, inkLocals, gimpLocals, svg, tmp_path, exc,
                   world, libCalls, msgs, ret, unlinkRaised>>

\* lines 149-155: the library is missing
vectorize_available ==
    /\ shim = "gimp" /\ pc = "start"
    /\ IF ~VTRACER_AVAILABLE
       THEN /\ ret' = Some(ReturnValues("EXECUTION_ERROR",
                             "VTracer not installed. Run: pip install vtracer"))
            /\ pc' = "done"
       ELSE /\ pc' = "g_drawables"
            /\ UNCHANGED ret
    /\ UNCHANGED <<inputs, config, doc, inkLocals, gimpLocals, svg, tmp_path, exc,
                   world, libCalls, msgs, unlinkRaised>>

\* lines 157-163: exactly one drawable
vectorize_drawables ==
    /\ shim = "gimp" /\ pc = "g_drawables"
    /\ IF n_drawables # 1
       THEN /\ ret' = Some(ReturnValues("CALLING_ERROR",
                                        "Please select exactly one layer"))
            /\ pc' = "done"
       ELSE /\ pc' = "g_dialog"
            /\ UNCHANGED ret
    /\ UNCHANGED <<inputs, config, doc, inkLocals, gimpLocals, svg, tmp_path, exc,
                   world, libCalls, msgs, unlinkRaised>>

\* lines 166-179: the dialog of the interactive mode; the user edits the
\* config and accepts, or cancels
vectorize_dialog ==
    /\ shim = "gimp" /\ pc = "g_dialog"
    /\ IF run_mode = "INTERACTIVE"
       THEN \E edited \in ConfigSet, accepted \in BOOLEAN :
              /\ config' = edited
              /\ IF accepted
                 THEN pc' = "g_params" /\ UNCHANGED ret
                 ELSE /\ ret' = Some(ReturnValues("CANCEL", ""))
                      /\ pc' = "done"
       ELSE /\ pc' = "g_params"
            /\ UNCHANGED <<config, ret>>
    /\ UNCHANGED <<inputs, doc, inkLocals, gimpLocals, svg, tmp_path, exc,
                   world, libCalls, msgs, unlinkRaised>>

\* lines 182-193: the parameters, and the path precision mapped
vectorize_params ==
    /\ shim = "gimp" /\ pc = "g_params"
    /\ output_path' = get_property(config, "output_path")
    /\ params' = Some(GimpCallArgs(config))
    /\ pc' = "g_mktemp"
    /\ UNCHANGED <<inputs, config, doc, inkLocals, pending, svg, tmp_path, exc,
                   world, libCalls, msgs, ret, unlinkRaised>>

\* lines 196-200: the temporary input file (created empty), and the name of a
\* temporary output file when no output path was given
vectorize_mktemp ==
    /\ shim = "gimp" /\ pc = "g_mktemp"
    /\ \E created \in BOOLEAN :
         IF created
         THEN LET name == TempName(nCreated + 1, DotPng) IN
              /\ tempFiles' = tempFiles \cup {TempFile(name, <<>>)}
              /\ nCreated' = nCreated + 1
              /\ tmp_path' = Some(name)
              /\ output_path' = IF output_path = "" THEN "/tmp/tmpXXXX.svg"
                                                    ELSE output_path
              /\ pc' = "g_export"
              /\ UNCHANGED exc
         ELSE /\ exc' = Some("OSError: cannot create temporary file")
              /\ pc' = "raised"
              /\ UNCHANGED <<tempFiles, nCreated, tmp_path, output_path>>
    /\ UNCHANGED <<inputs, config, doc, inkLocals, params, pending, svg, outFiles,
                   libCalls, msgs, ret, unlinkRaised>>

\* lines 204-216: the drawable exported to the temporary PNG
vectorize_export ==
    /\ shim = "gimp" /\ pc = "g_export"
    /\ \E ok \in BOOLEAN :
         IF ok
         THEN /\ tempFiles' = Unlinked(tempFiles, tmp_path[1])
                                \cup {TempFile(tmp_path[1], <<137, 80, 78, 71>>)}
              /\ pc' = "g_convert"
              /\ UNCHANGED exc
         ELSE /\ exc' = Some("file-png-export failed")
              /\ pc' = "g_except"
              /\ UNCHANGED tempFiles
    /\ UNCHANGED <<inputs, config, doc, inkLocals, gimpLocals, svg, tmp_path,
                   nCreated, outFiles, libCalls, msgs, ret, unlinkRaised>>

\* lines 219-230: the library call
vectorize_convert ==
    /\ shim = "gimp" /\ pc = "g_convert"
    /\ \E out \in LibOutcomes :
         /\ libCalls' = Append(libCalls,
                [path |-> tmp_path[1], args |-> params[1], image |-> 0,
                 raised |-> out.raised])
         /\ IF out.raised # None
            THEN exc' = out.raised /\ pc' = "g_except" /\ UNCHANGED svg
            ELSE svg' = out.svg /\ pc' = "g_write" /\ UNCHANGED exc
    /\ UNCHANGED <<inputs, config, doc, inkLocals, gimpLocals, tmp_path, world,
                   msgs, ret, unlinkRaised>>

\* lines 233-234: the SVG written; open() may fail, and so may write() on
\* the file open() has created
vectorize_write ==
    /\ shim = "gimp" /\ pc = "g_write"
    /\ \E io \in {"ok", "open raises", "write raises"} :
         /\ outFiles' =
              CASE io = "ok" ->
                     { f \in outFiles : f.path # output_path }
                       \cup { [path |-> output_path, data |-> svg] }
                [] io = "write raises" ->
                     { f \in outFiles : f.path # output_path }
                       \cup { [path |-> output_path, data |-> None] }
                [] OTHER -> outFiles
         /\ IF io = "ok"
            THEN pc' = "g_notify" /\ UNCHANGED exc
            ELSE exc' = Some("OSError: cannot write output") /\ pc' = "g_except"
    /\ UNCHANGED <<inputs, config, doc, inkLocals, gimpLocals, svg, tmp_path,
                   tempFiles, nCreated, libCalls, msgs, ret, unlinkRaised>>

\* lines 237-246: the success message, and the attempt to open the file,
\* whose failure the bare except discards
vectorize_notify ==
    /\ shim = "gimp" /\ pc = "g_notify"
    /\ msgs' = Append(msgs, Msg("message", "SVG saved to: ", output_path, 0))
    /\ \E launched \in BOOLEAN : pc' = "g_finally"
    /\ UNCHANGED <<inputs, config, doc, inkLocals, gimpLocals, svg, tmp_path, exc,
                   world, libCalls, ret, unlinkRaised>>

\* lines 248-252: except Exception as e: the return waits for finally
vectorize_except ==
    /\ shim = "gimp" /\ pc = "g_except"
    /\ pending' = Some(ReturnValues("EXECUTION_ERROR", exc[1]))
    /\ exc' = None
    /\ pc' = "g_finally"
    /\ UNCHANGED <<inputs, config, doc, inkLocals, params, output_path, svg,
                   tmp_path, world, libCalls, msgs, ret, unlinkRaised>>

\* lines 253-256: finally: the temporary input removed; an exception of
\* os.unlink leaves the handler and discards the waiting return
vectorize_finally ==
    /\ shim = "gimp" /\ pc = "g_finally"
    /\ IF Exists(tempFiles, tmp_path[1])
       THEN \E ok \in BOOLEAN :
              IF ok
              THEN /\ tempFiles' = Unlinked(tempFiles, tmp_path[1])
                   /\ pc' = "g_return"
                   /\ UNCHANGED <<exc, pending, unlinkRaised>>
              ELSE /\ exc' = Some("OSError: cannot remove temporary file")
                   /\ pending' = None
                   /\ unlinkRaised' = TRUE
                   /\ pc' = "raised"
                   /\ UNCHANGED tempFiles
       ELSE /\ pc' = "g_return"
            /\ UNCHANGED <<tempFiles, exc, pending, unlinkRaised>>
    /\ UNCHANGED <<inputs, config, doc, inkLocals, params, output_path, svg,
                   tmp_path, nCreated, outFiles, libCalls, msgs, ret>>

\* the return waiting since line 249, or line 258
vectorize_return ==
    /\ shim = "gimp" /\ pc = "g_return"
    /\ ret' = IF pending # None THEN pending
              ELSE Some(ReturnValues("SUCCESS", ""))
    /\ pc' = "done"
    /\ UNCHANGED <<inputs, config, doc, inkLocals, gimpLocals, svg, tmp_path, exc,
                   world, libCalls, msgs, unlinkRaised>>

GimpNext ==
    \/ vectorize_available
    \/ vectorize_drawables
    \/ vectorize_dialog
    \/ vectorize_params
    \/ vectorize_mktemp
    \/ vectorize_export
    \/ vectorize_convert
    \/ vectorize_write
    \/ vectorize_notify
    \/ vectorize_except
    \/ vectorize_finally
    \/ vectorize_return

\* --------------------------------------------- Inkscape: effect (131-167)

\* lines 132-139: the library is missing
effect_available ==
    /\ shim = "inkscape" /\ pc = "start"
    /\ IF ~VTRACER_AVAILABLE
       THEN /\ msgs' = Append(msgs, Msg("errormsg", "VTracer is not installed!", "", 0))
            /\ pc' = "done"
       ELSE /\ pc' = "i_select"
            /\ UNCHANGED msgs
    /\ UNCHANGED <<inputs, config, doc, inkLocals, gimpLocals, svg, tmp_path, exc,
                   world, libCalls, ret, unlinkRaised>>

\* isinstance(elem, Image)
IsImage(children, id) ==
    \E k \in 1..Len(children) : children[k].id = id /\ children[k].kind = "image"

\* lines 142-149: the selected images, and the message when there is none
effect_select ==
    /\ shim = "inkscape" /\ pc = "i_select"
    /\ images' = SelectSeq(selection, LAMBDA id : IsImage(doc, id))
    /\ IF images' = <<>>
       THEN /\ msgs' = Append(msgs, Msg("errormsg", "No images selected!", "", 0))
            /\ pc' = "done"
       ELSE /\ pc' = "i_settings"
            /\ UNCHANGED msgs
    /\ UNCHANGED <<inputs, config, doc, idx, settings, extracted, img, group,
                   results, gimpLocals, svg, tmp_path, exc, world, libCalls, ret,
                   unlinkRaised>>

\* lines 152-163: the settings, from the preset or from the options
effect_settings ==
    /\ shim = "inkscape" /\ pc = "i_settings"
    /\ settings' = ChooseSettings(ParseOptions(given))
    /\ idx' = 1
    /\ pc' = "i_loop"
    /\ UNCHANGED <<inputs, config, doc, images, extracted, img, group, results,
                   gimpLocals, svg, tmp_path, exc, world, libCalls, msgs, ret,
                   unlinkRaised>>

\* lines 166-167: the loop over the images; effect returns after the last
effect_loop ==
    /\ shim = "inkscape" /\ pc = "i_loop"
    /\ pc' = IF idx <= Len(images) THEN "v_extract" ELSE "done"
    /\ extracted' = None
    /\ img' = NoImg
    /\ svg' = None
    /\ group' = None
    /\ tmp_path' = None
    /\ UNCHANGED <<inputs, config, doc, images, idx, settings, results,
                   gimpLocals, exc, world, libCalls, msgs, ret, unlinkRaised>>

\* ------------------------------------ Inkscape: vectorize_image (169-264)

\* lines 173-177: the image's bytes; no bytes, no vectorization.  The href
\* attributes are the element's (the shim never writes them).
vectorize_image_extract ==
    /\ shim = "inkscape" /\ pc = "v_extract"
    /\ \E xlink_href \in HrefSet, plain_href \in {<<>>, HrefRelB}, io \in {"ok", "raise"} :
         LET r == extract_image_data(xlink_href, plain_href, input_file, io) IN
         /\ extracted' = Some([href |-> IF xlink_href # <<>> THEN xlink_href
                                        ELSE plain_href,
                               result |-> r])
         /\ CASE r.kind = "raise" ->
                   /\ exc' = Some(r.err)
                   /\ pc' = "raised"
                   /\ UNCHANGED <<img, msgs, idx, results>>
              [] r.kind = "none" ->
                   /\ msgs' = Append(msgs, Msg("errormsg",
                                 "Could not read image data from element", "", idx))
                   /\ results' = Append(results, "no data")
                   /\ idx' = idx + 1
                   /\ pc' = "i_loop"
                   /\ UNCHANGED <<img, exc>>
              [] OTHER ->
                   /\ img' = [NoImg EXCEPT !.data = r.data, !.fmt = r.fmt]
                   /\ pc' = "v_geometry"
                   /\ UNCHANGED <<exc, msgs, idx, results>>
    /\ UNCHANGED <<inputs, config, doc, images, settings, group, gimpLocals, svg,
                   tmp_path, world, libCalls, ret, unlinkRaised>>

\* lines 180-183: the position and size; float() of x or y may raise
vectorize_image_geometry ==
    /\ shim = "inkscape" /\ pc = "v_geometry"
    /\ extracted' = None
    /\ \E g \in GeomSet :
         LET xa == IF g.x = None THEN Num(0, "") ELSE g.x[1]
             ya == IF g.y = None THEN Num(0, "") ELSE g.y[1]
         IN  IF FloatOk(xa) /\ FloatOk(ya)
             THEN /\ img' = [img EXCEPT !.x = xa.num, !.y = ya.num,
                                        !.width = g.width, !.height = g.height]
                  /\ pc' = "v_mktemp"
                  /\ UNCHANGED exc
             ELSE /\ exc' = Some("could not convert string to float")
                  /\ pc' = "raised"
                  /\ UNCHANGED img
    /\ UNCHANGED <<inputs, config, doc, images, idx, settings, group, results,
                   gimpLocals, svg, tmp_path, world, libCalls, msgs, ret,
                   unlinkRaised>>

\* lines 186-189: the temporary file, created and then written; either step
\* may raise, and neither is inside the try block
vectorize_image_mktemp ==
    /\ shim = "inkscape" /\ pc = "v_mktemp"
    /\ \E io \in {"ok", "create raises", "write raises"} :
         LET suffix == IF img.fmt # <<>> THEN <<".">> \o img.fmt ELSE DotPng
             name   == TempName(nCreated + 1, suffix)
         IN  CASE io = "ok" ->
                    /\ tempFiles' = tempFiles \cup {TempFile(name, img.data)}
                    /\ nCreated' = nCreated + 1
                    /\ tmp_path' = Some(name)
                    /\ pc' = "v_convert"
                    /\ UNCHANGED exc
               [] io = "write raises" ->
                    /\ tempFiles' = tempFiles \cup {TempFile(name, <<>>)}
                    /\ nCreated' = nCreated + 1
                    /\ exc' = Some("OSError: cannot write temporary file")
                    /\ pc' = "raised"
                    /\ UNCHANGED tmp_path
               [] OTHER ->
                    /\ exc' = Some("OSError: cannot create temporary file")
                    /\ pc' = "raised"
                    /\ UNCHANGED <<tempFiles, nCreated, tmp_path>>
    /\ UNCHANGED <<inputs, config, doc, inkLocals, gimpLocals, svg, outFiles,
                   libCalls, msgs, ret, unlinkRaised>>

\* lines 193-202: the library call; subscripting settings that are None
\* raises TypeError before the library is reached
vectorize_image_convert ==
    /\ shim = "inkscape" /\ pc = "v_convert"
    /\ IF settings = None
       THEN /\ exc' = Some("'NoneType' object is not subscriptable")
            /\ pc' = "v_except"
            /\ UNCHANGED <<libCalls, svg>>
       ELSE \E out \in LibOutcomes :
              /\ libCalls' = Append(libCalls,
                     [path |-> tmp_path[1], args |-> InkCallArgs(settings[1]),
                      image |-> idx, raised |-> out.raised])
              /\ IF out.raised # None
                 THEN exc' = out.raised /\ pc' = "v_except" /\ UNCHANGED svg
                 ELSE svg' = out.svg /\ pc' = "v_parse" /\ UNCHANGED exc
    /\ UNCHANGED <<inputs, config, doc, inkLocals, gimpLocals, tmp_path, world,
                   msgs, ret, unlinkRaised>>

\* lines 205-206: the SVG text parsed
vectorize_image_parse ==
    /\ shim = "inkscape" /\ pc = "v_parse"
    /\ IF svg[1].wellformed
       THEN pc' = "v_group" /\ UNCHANGED exc
       ELSE exc' = Some("XMLSyntaxError") /\ pc' = "v_except"
    /\ UNCHANGED <<inputs, config, doc, inkLocals, gimpLocals, svg, tmp_path,
                   world, libCalls, msgs, ret, unlinkRaised>>

\* lines 209-249: the group: its id, its transform, its copied children
vectorize_image_group ==
    /\ shim = "inkscape" /\ pc = "v_group"
    /\ LET t == BuildTransform(img.x, img.y, img.width, img.height, svg[1].viewBox) IN
       IF t.kind = "raise"
       THEN /\ exc' = Some(t.err)
            /\ pc' = "v_except"
            /\ UNCHANGED group
       ELSE /\ group' = Some([Element(VectorizedId(images[idx]), "group") EXCEPT
                                 !.transform = t.data,
                                 !.children = CopyElements(svg[1].elems)])
            /\ pc' = "v_insert"
            /\ UNCHANGED exc
    /\ UNCHANGED <<inputs, config, doc, images, idx, settings, extracted, img,
                   results, gimpLocals, svg, tmp_path, world, libCalls, msgs, ret,
                   unlinkRaised>>

\* lines 252-253: the group inserted at the image's place in its parent
vectorize_image_insert ==
    /\ shim = "inkscape" /\ pc = "v_insert"
    /\ doc' = InsertAt(doc, IndexOf(doc, images[idx]), group[1])
    /\ pc' = "v_hide"
    /\ UNCHANGED <<inputs, config, inkLocals, gimpLocals, svg, tmp_path, exc,
                   world, libCalls, msgs, ret, unlinkRaised>>

\* A variant of vectorize_image_hide: the original image removed from its
\* parent instead of hidden.
vectorize_image_hide_removes ==
    /\ shim = "inkscape" /\ pc = "v_hide"
    /\ doc' = SelectSeq(doc, LAMBDA e : e.id # images[idx])
    /\ results' = Append(results, "vectorized")
    /\ pc' = "v_finally"
    /\ UNCHANGED <<inputs, config, images, idx, settings, extracted, img, group,
                   gimpLocals, svg, tmp_path, exc, world, libCalls, msgs, ret,
                   unlinkRaised>>

\* line 256: the image hidden; the try block ends
vectorize_image_hide ==
    /\ shim = "inkscape" /\ pc = "v_hide"
    /\ doc' = [doc EXCEPT ![IndexOf(doc, images[idx])].style = "display:none"]
    /\ results' = Append(results, "vectorized")
    /\ pc' = "v_finally"
    /\ UNCHANGED <<inputs, config, images, idx, settings, extracted, img, group,
                   gimpLocals, svg, tmp_path, exc, world, libCalls, msgs, ret,
                   unlinkRaised>>

\* A variant of vectorize_image_except: the exception swallowed, no message.
vectorize_image_except_silent ==
    /\ shim = "inkscape" /\ pc = "v_except"
    /\ results' = Append(results, "error")
    /\ exc' = None
    /\ pc' = "v_finally"
    /\ UNCHANGED <<inputs, config, doc, images, idx, settings, extracted, img,
                   group, gimpLocals, svg, tmp_path, world, libCalls, msgs, ret,
                   unlinkRaised>>

\* lines 258-259: except Exception as e: the message
vectorize_image_except ==
    /\ shim = "inkscape" /\ pc = "v_except"
    /\ msgs' = Append(msgs, Msg("errormsg", "Error vectorizing image: ", exc[1], idx))
    /\ results' = Append(results, "error")
    /\ exc' = None
    /\ pc' = "v_finally"
    /\ UNCHANGED <<inputs, config, doc, images, idx, settings, extracted, img,
                   group, gimpLocals, svg, tmp_path, world, libCalls, ret,
                   unlinkRaised>>

\* A variant of vectorize_image_finally: the temporary file left behind.
vectorize_image_finally_keeps ==
    /\ shim = "inkscape" /\ pc = "v_finally"
    /\ idx' = idx + 1
    /\ pc' = "i_loop"
    /\ UNCHANGED <<inputs, config, doc, images, settings, extracted, img, group,
                   results, gimpLocals, svg, tmp_path, exc, world, libCalls, msgs,
                   ret, unlinkRaised>>

\* lines 261-264: finally: the temporary file removed; an exception of
\* os.unlink leaves vectorize_image and effect
vectorize_image_finally ==
    /\ shim = "inkscape" /\ pc = "v_finally"
    /\ IF Exists(tempFiles, tmp_path[1])
       THEN \E ok \in BOOLEAN :
              IF ok
              THEN /\ tempFiles' = Unlinked(tempFiles, tmp_path[1])
                   /\ idx' = idx + 1
                   /\ pc' = "i_loop"
                   /\ UNCHANGED <<exc, unlinkRaised>>
              ELSE /\ exc' = Some("OSError: cannot remove temporary file")
                   /\ unlinkRaised' = TRUE
                   /\ pc' = "raised"
                   /\ UNCHANGED <<tempFiles, idx>>
       ELSE /\ idx' = idx + 1
            /\ pc' = "i_loop"
            /\ UNCHANGED <<tempFiles, exc, unlinkRaised>>
    /\ UNCHANGED <<inputs, config, doc, images, settings, extracted, img, group,
                   results, gimpLocals, svg, tmp_path, nCreated, outFiles,
                   libCalls, msgs, ret>>

InkNext ==
    \/ effect_available
    \/ effect_select
    \/ effect_settings
    \/ effect_loop
    \/ vectorize_image_extract
    \/ vectorize_image_geometry
    \/ vectorize_image_mktemp
    \/ vectorize_image_convert
    \/ vectorize_image_parse
    \/ vectorize_image_group
    \/ vectorize_image_insert
    \/ vectorize_image_hide
    \/ vectorize_image_except
    \/ vectorize_image_finally

\* ---------------------------------------------------------- specification

Next ==
    \/ GimpNext
    \/ InkNext

Spec ==
    Init /\ [][Next]_vars

\* ------------------------------------------------------------- properties

Finished ==
    pc \in {"done", "raised"}

\* The messages shown for image k of the loop (0: for the invocation).
MsgsOf(k) ==
    { j \in 1..Len(msgs) : msgs[j].image = k }

HasElem(children, id) ==
    \E j \in 1..Len(children) : children[j].id = id

\* The image element id carries no mutation in d: it is not hidden and no
\* group vectorized_<id> is in its parent.
Unmutated(d, id) ==
    /\ ~HasElem(d, VectorizedId(id))
    /\ \A j \in 1..Len(d) : d[j].id = id => d[j].style = ""

\* C1: in both shims, the temporary input file an invocation created no
\* longer exists when the invocation has finished (GIMP: vectorize has
\* returned or raised; Inkscape: vectorize_image has ended for an image, by
\* returning to the loop or by raising), whatever succeeded or raised.
C1_TempFileGoneAtEnd ==
    (Finished \/ pc = "i_loop") => tempFiles = {}

\* C2: with the library unavailable, both shims report that and end at once:
\* the handler goes from its first check straight to its end, no temporary
\* file is ever created, the library is never called, no output file is
\* written and the document stays as it was; what the user gets is exactly
\* the report of the missing library, also when the selection is wrong.
C2_UnavailableAbortsFirst ==
    ~VTRACER_AVAILABLE =>
        /\ pc \in {"start", "done"}
        /\ nCreated = 0 /\ tempFiles = {}
        /\ libCalls = <<>>
        /\ outFiles = {}
        /\ doc = doc0
        /\ pc = "done" =>
             IF shim = "gimp"
             THEN /\ ret = Some(ReturnValues("EXECUTION_ERROR",
                              "VTracer not installed. Run: pip install vtracer"))
                  /\ msgs = <<>>
             ELSE /\ msgs = <<Msg("errormsg", "VTracer is not installed!", "", 0)>>
                  /\ ret = None

\* C2's case: the library is missing, the GIMP selection is wrong as well,
\* and the handler has ended.
C2_Witness ==
    /\ ~VTRACER_AVAILABLE
    /\ shim = "gimp" /\ n_drawables = 2 /\ run_mode = "INTERACTIVE"
    /\ pc = "done"

\* The values the user specified, defaults applied, as the claim reads them:
\* GIMP's color mode 0/1 names color/binary, and its path precision choice
\* low/medium/high is 1/2/3, anything else 2.
C3_Field(r, k, default) ==
    IF k \in DOMAIN r THEN r[k] ELSE default

C3_GimpExpected(c) ==
    [colormode        |-> IF C3_Field(c, "color_mode", 0) = 1 THEN "binary" ELSE "color",
     filter_speckle   |-> C3_Field(c, "filter_speckle", 4),
     color_precision  |-> C3_Field(c, "color_precision", 8),
     corner_threshold |-> C3_Field(c, "corner_threshold", 60),
     length_threshold |-> C3_Field(c, "segment_length", 4),
     splice_threshold |-> C3_Field(c, "splice_threshold", 45),
     path_precision   |-> LET p == C3_Field(c, "path_precision", "medium") IN
                          IF p = "low" THEN 1 ELSE IF p = "high" THEN 3 ELSE 2]

C3_InkExpected(g) ==
    [colormode        |-> C3_Field(g, "colormode", "color"),
     filter_speckle   |-> C3_Field(g, "filter_speckle", 4),
     color_precision  |-> C3_Field(g, "color_precision", 8),
     corner_threshold |-> C3_Field(g, "corner_threshold", 60),
     length_threshold |-> C3_Field(g, "length_threshold", 4),
     splice_threshold |-> C3_Field(g, "splice_threshold", 45),
     path_precision   |-> C3_Field(g, "path_precision", 2)]

\* C3 as stated: every call of the library carries exactly the user's seven
\* values, defaults applied to the unset ones, in both shims.
C3_CallCarriesUserValues ==
    \A k \in 1..Len(libCalls) :
        libCalls[k].args = IF shim = "gimp" THEN C3_GimpExpected(config)
                           ELSE C3_InkExpected(given)

\* C3 as amended: every call of the library carries exactly the user's seven
\* values, defaults applied to the unset ones, in the GIMP shim always and in
\* the Inkscape shim whenever the preset option is custom (its default).
C3_CallCarriesUserValuesUnlessPreset ==
    \A k \in 1..Len(libCalls) :
        /\ shim = "gimp" => libCalls[k].args = C3_GimpExpected(config)
        /\ (shim = "inkscape" /\ C3_Field(given, "preset", "custom") = "custom")
             => libCalls[k].args = C3_InkExpected(given)

\* C3's case: the Inkscape shim, no preset chosen, two options passed and
\* the others left to their defaults, and the library called for two images.
C3_Witness ==
    /\ shim = "inkscape"
    /\ given = Restrict(GivenFull, {"colormode", "splice_threshold"})
    /\ Len(libCalls) = 2

\* C4: an exception of the library call is surfaced as exactly one error
\* carrying its string, and nothing is applied: when the invocation has
\* ended, GIMP has returned EXECUTION_ERROR with that string and written no
\* output file; Inkscape has shown one errormsg with that string for that
\* image, and has neither inserted its group nor hidden it.
C4_LibraryErrorSurfacedOnce ==
    Finished =>
        \A k \in 1..Len(libCalls) :
            libCalls[k].raised # None =>
                IF shim = "gimp"
                THEN /\ ret = Some(ReturnValues("EXECUTION_ERROR", libCalls[k].raised[1]))
                     /\ outFiles = {}
                     /\ msgs = <<>>
                ELSE LET i == libCalls[k].image IN
                     /\ Cardinality(MsgsOf(i)) = 1
                     /\ \A j \in MsgsOf(i) :
                          msgs[j] = Msg("errormsg", "Error vectorizing image: ",
                                        libCalls[k].raised[1], i)
                     /\ Unmutated(doc, images[i])

\* The images of the loop whose processing failed: no image data, or an
\* exception caught by vectorize_image.
FailedImages ==
    { k \in 1..Len(results) : results[k] \in {"no data", "error"} }

\* C5 as stated: once the processing of an image has failed, the Inkscape
\* invocation is over with nothing applied: one message in all, no image
\* taken up after the failed one, the document as it was.
C5_FailureEndsInvocation ==
    (shim = "inkscape" /\ FailedImages # {}) =>
        /\ Len(msgs) = 1
        /\ \A k \in FailedImages :
             /\ Len(results) = k
             /\ pc \in {"i_loop", "v_finally", "done", "raised"}
        /\ doc = doc0

\* C5 as amended: a failure is per image.  Each image whose processing
\* failed (no image data, or an exception caught by vectorize_image) has
\* exactly one message shown for it and carries no mutation (no group of
\* its own inserted, not hidden); no message is shown for an image that did
\* not fail.  The failure does not end the invocation: the images that
\* follow may still be processed, and a message before any image (library
\* missing, no image selected) is shown only when no image was processed.
C5_FailureIsPerImage ==
    shim = "inkscape" =>
        /\ \A k \in FailedImages :
             /\ Cardinality(MsgsOf(k)) = 1
             /\ Unmutated(doc, images[k])
        /\ \A j \in 1..Len(msgs) : msgs[j].image \in FailedImages \cup {0}
        /\ MsgsOf(0) # {} => Len(results) = 0

\* C5's case: the first image failed with a caught exception, and the second
\* was vectorized after it.
C5_Witness ==
    /\ shim = "inkscape"
    /\ results = <<"error", "vectorized">>
    /\ pc = "done"

\* C6: a failure of the deletion of the temporary file is swallowed: when
\* os.unlink has raised, no exception leaves the handler, and the invocation
\* ends as it would have ended otherwise.
C6_UnlinkFailureSwallowed ==
    unlinkRaised => (pc # "raised" /\ exc = None)

\* The bytes a reference of the model stands for: the payload of a data:
\* URI decoded, or the content of the file named.
C7_Referenced(href) ==
    CASE href \in {HrefDataPng, HrefDataSpaced} -> <<65, 66>>
      [] href \in {HrefFileA, HrefFileHost}     -> <<137, 80>>
      [] href = HrefRelB                        -> <<255, 216>>
      [] OTHER                                  -> <<>>

\* C7: whatever href the image of the loop carries, extract_image_data
\* returns the bytes the href stands for, or else vectorize_image shows its
\* error, and for that image no temporary file exists, the library was not
\* called and the document carries no mutation.
C7_ResolvedOrReported ==
    (shim = "inkscape" /\ extracted # None) =>
        LET e == extracted[1] IN
        \/ /\ e.result.kind = "value"
           /\ e.result.data = C7_Referenced(e.href)
        \/ /\ e.result.kind = "none"
           /\ msgs # <<>>
           /\ msgs[Len(msgs)] = Msg("errormsg",
                  "Could not read image data from element", "", idx - 1)
           /\ Cardinality(MsgsOf(idx - 1)) = 1
           /\ tempFiles = {}
           /\ \A k \in 1..Len(libCalls) : libCalls[k].image # idx - 1
           /\ Unmutated(doc, images[idx - 1])

\* The extent of the traced output: its viewBox, or without one its width
\* and height from the origin.  <<min-x, min-y, width, height>>
C8_Extent(t) ==
    IF t.viewBox # None
    THEN <<t.viewBox[1][1].num, t.viewBox[1][2].num,
           t.viewBox[1][3].num, t.viewBox[1][4].num>>
    ELSE <<0, 0, t.width, t.height>>

\* The claim speaks of: a viewBox of four numbers or none, and a width and
\* height in user units (bare or px) or absent.
C8_Applies(t, im) ==
    /\ t.viewBox # None =>
         /\ Len(t.viewBox[1]) = 4
         /\ \A k \in 1..4 : FloatOk(t.viewBox[1][k])
    /\ im.width # None => im.width[1].unit \in {"", "px"}
    /\ im.height # None => im.height[1].unit \in {"", "px"}

\* C8: the transform of the inserted group maps the traced output's extent
\* onto the image's x, y, width and height (an absent x or y is 0, an
\* absent width or height is the raster's own).  With the scale a fraction
\* n/d, translate + (n/d) * extent = image is compared multiplied by d.
C8_GroupBoxIsImageBox ==
    (shim = "inkscape" /\ pc = "v_hide" /\ C8_Applies(svg[1], img)) =>
        LET g  == doc[IndexOf(doc, VectorizedId(images[idx]))].transform
            e  == C8_Extent(svg[1])
            tx == IF g.translate = None THEN 0 ELSE g.translate[1][1]
            ty == IF g.translate = None THEN 0 ELSE g.translate[1][2]
            sx == IF g.scale = None THEN <<1, 1>> ELSE g.scale[1][1]
            sy == IF g.scale = None THEN <<1, 1>> ELSE g.scale[1][2]
            w  == IF img.width = None THEN svg[1].width ELSE img.width[1].num
            h  == IF img.height = None THEN svg[1].height ELSE img.height[1].num
        IN  /\ tx * sx[2] + sx[1] * e[1] = img.x * sx[2]
            /\ ty * sy[2] + sy[1] * e[2] = img.y * sy[2]
            /\ sx[1] * e[3] = w * sx[2]
            /\ sy[1] * e[4] = h * sy[2]

\* C9: at every point of an invocation at most one temporary file of the
\* shim exists, and none exists at the point where the next one is about to
\* be created: the file of one image is gone before the file of the next
\* image is made, however the earlier image ended.
C9_OneTempFileAtATime ==
    /\ Cardinality(tempFiles) <= 1
    /\ pc \in {"g_mktemp", "v_mktemp"} => tempFiles = {}

\* C9's case: the first image's processing failed, its file is gone, and the
\* second image's file exists.
C9_Witness ==
    /\ shim = "inkscape"
    /\ results = <<"error">>
    /\ nCreated = 2
    /\ Cardinality(tempFiles) = 1

\* The images of the loop that were vectorized.
VectorizedImages ==
    { k \in 1..Len(results) : results[k] = "vectorized" }

\* For every vectorized image: it is still in its parent and hidden, and its
\* parent holds exactly one group vectorized_<id>, right before the image.
C10_VectorizedInPlace ==
    \A k \in VectorizedImages :
        LET id == images[k]
            gs == { j \in 1..Len(doc) : doc[j].id = VectorizedId(id) }
        IN  /\ HasElem(doc, id)
            /\ doc[IndexOf(doc, id)].kind = "image"
            /\ doc[IndexOf(doc, id)].style = "display:none"
            /\ Cardinality(gs) = 1
            /\ \A j \in gs : doc[j].kind = "group" /\ j + 1 = IndexOf(doc, id)

\* A step that hides an image finds that image's group already inserted.
C10_InsertedBeforeHidden ==
    \A j \in 1..Len(doc') :
        (doc'[j].style = "display:none"
           /\ \A i \in 1..Len(doc) : doc[i].id = doc'[j].id => doc[i].style = "")
        => HasElem(doc, VectorizedId(doc'[j].id))

\* A step removes no element: the elements stay, in their order.
C10_NothingRemoved ==
    LET kept == SelectSeq(doc', LAMBDA e : HasElem(doc, e.id)) IN
    [i \in 1..Len(kept) |-> kept[i].id] = [i \in 1..Len(doc) |-> doc[i].id]

\* C10: after a successful vectorization the image is still in its parent,
\* hidden, with exactly one new group vectorized_<id> right before it; the
\* group is inserted before the image is hidden; and no step of the shim
\* removes an element of the document.
C10_HiddenNotDeleted ==
    /\ [](shim = "inkscape" => C10_VectorizedInPlace)
    /\ [][C10_InsertedBeforeHidden /\ C10_NothingRemoved]_vars

\* C10's case: two images of one parent, both vectorized, and effect returned.
C10_Witness ==
    /\ shim = "inkscape"
    /\ results = <<"vectorized", "vectorized">>
    /\ pc = "done"

\* The preset option as effect() reads it, and the three presets with values.
C11_Preset ==
    C3_Field(given, "preset", "custom")

C11_FixedPresets ==
    {"bw", "poster", "photo"}

\* The images of the loop whose data extract_image_data returned.
C11_ReadImages ==
    { k \in 1..Len(results) : results[k] # "no data" }

\* C11: in the Inkscape shim the preset decides the settings.  When an
\* invocation with the library present has ended: under bw, poster or photo
\* every call of the library carries that preset's seven values, whatever
\* options were passed, and under custom the options' values; in both cases
\* every selected image was processed and the library was called for each
\* one whose data was read.  Under any other preset the library was never
\* called, the document is as it was, every selected image has exactly one
\* message, a temporary file was created for each image whose data was read,
\* and none is left.
C11_PresetDecidesSettings ==
    (shim = "inkscape" /\ VTRACER_AVAILABLE /\ Finished) =>
        IF C11_Preset \in C11_FixedPresets \cup {"custom"}
        THEN /\ \A c \in 1..Len(libCalls) :
                  libCalls[c].args =
                      IF C11_Preset = "custom" THEN C3_InkExpected(given)
                      ELSE get_preset_settings(C11_Preset)[1]
             /\ Len(results) = Len(images)
             /\ \A k \in C11_ReadImages :
                  \E c \in 1..Len(libCalls) : libCalls[c].image = k
        ELSE /\ libCalls = <<>>
             /\ doc = doc0
             /\ \A k \in 1..Len(images) : Cardinality(MsgsOf(k)) = 1
             /\ nCreated = Cardinality(C11_ReadImages)
             /\ tempFiles = {}

====
